---------------------------- MODULE Spec2Model ----------------------------
(***************************************************************************)
(* The template-reference resolution pipeline of botbuilder-ai.            *)
(*                                                                         *)
(* Two revisions of the resolver are in the sources:                       *)
(*   LGResolver                 (src/unnamed/part_001, lines 76-645)       *)
(*   LanguageGenerationResolver (src/libraries/botbuilder-ai/src/          *)
(*                               lgResolver.ts, lines 1-714)               *)
(* They share PatternRecognizer, the activity inspectors and injectors;    *)
(* they differ in how a request is built, fetched and aggregated.          *)
(*                                                                         *)
(* A JavaScript string is a sequence of one-character strings.  A          *)
(* JavaScript Map is a sequence of <<key, value>> pairs with distinct      *)
(* keys, in insertion order.                                               *)
(***************************************************************************)
EXTENDS Integers, Sequences, FiniteSets

VARIABLES
    impl,                 \* which resolver class was constructed
    pc,                   \* position of the resolve call
    activity,             \* the message object (mutated in place)
    activity0,            \* the message as it was when resolve was called
    entities,             \* the entities argument of resolve
    slots,                \* templateReferencesSlots / slots: the references
    entitiesSlots,        \* result of convertEntitiesToSlots
    requests,             \* the requests built, one per slot
    promises,             \* requestPromises: state of each fetch
    completed,            \* the fetches in the order they were fulfilled
    responses,            \* result of await Promise.all
    templateResolutions,  \* the resolution table
    outcome,              \* how the promise returned by resolve settled
    call,                 \* a direct call of a utility: its name and arguments
    ret,                  \* what that call returned or threw
    regexLastIndex        \* PatternRecognizer.regex.lastIndex (static, shared)

vars == <<impl, pc, activity, activity0, entities, slots, entitiesSlots,
          requests, promises, completed, responses, templateResolutions,
          outcome, call, ret, regexLastIndex>>

resolverVars == <<impl, pc, activity, activity0, entities, slots,
                  entitiesSlots, requests, promises, completed, responses,
                  templateResolutions, outcome>>

-----------------------------------------------------------------------------
(* Bounds of the model *)

\* segments a pattern text is put together from, at most
MaxSegs == 2
\* segments of activity.text, at most
MaxFieldSegs == 2
\* suggested actions of an activity, at most
MaxActions == 1
\* numbers are the tenths -MaxTenths .. MaxTenths
MaxTenths == 12

-----------------------------------------------------------------------------
(* Strings *)

\* all concatenations of at most n elements of segs
RECURSIVE ConcatsUpTo(_, _)
ConcatsUpTo(segs, n) ==
    IF n = 0 THEN {<<>>}
    ELSE LET shorter == ConcatsUpTo(segs, n - 1)
         IN  shorter \cup {t \o s : t \in shorter, s \in segs}

\* String.prototype.indexOf(pat): the first position (1-based) at which pat
\* occurs in text, 0 when it does not occur
IndexOf(text, pat) ==
    LET n == Len(pat)
        hits == {p \in 1..(Len(text) - n + 1) : SubSeq(text, p, p + n - 1) = pat}
    IN  IF hits = {} THEN 0 ELSE CHOOSE p \in hits : \A q \in hits : p <= q

Occurs(text, pat) == IndexOf(text, pat) # 0

\* the expansion of the special patterns of a replacement string
\* ($$, $&, $`, $') by String.prototype.replace
RECURSIVE ExpandReplacement(_, _, _, _)
ExpandReplacement(repl, matched, before, after) ==
    IF repl = <<>> THEN <<>>
    ELSE IF Head(repl) = "$" /\ Len(repl) >= 2
         THEN LET c == repl[2]
                  rest == SubSeq(repl, 3, Len(repl))
              IN  CASE c = "$" -> <<"$">> \o ExpandReplacement(rest, matched, before, after)
                    [] c = "&" -> matched \o ExpandReplacement(rest, matched, before, after)
                    [] c = "`" -> before \o ExpandReplacement(rest, matched, before, after)
                    [] c = "'" -> after \o ExpandReplacement(rest, matched, before, after)
                    [] OTHER   -> <<"$">> \o ExpandReplacement(Tail(repl), matched, before, after)
         ELSE <<Head(repl)>> \o ExpandReplacement(Tail(repl), matched, before, after)

\* lodash replace(string, pattern, replacement) with a string pattern, that is
\* String.prototype.replace: only the first occurrence is replaced
ReplaceEveryOccurrence(text, pat, repl) ==
    LET RECURSIVE all(_)
        all(t) ==
            LET p == IndexOf(t, pat)
            IN  IF p = 0 THEN t
                ELSE SubSeq(t, 1, p - 1) \o repl
                     \o all(SubSeq(t, p + Len(pat), Len(t)))
    IN  all(text)

replace(text, pat, repl) ==
    LET p == IndexOf(text, pat)
    IN  IF p = 0 THEN text
        ELSE LET before == SubSeq(text, 1, p - 1)
                 after == SubSeq(text, p + Len(pat), Len(text))
             IN  before \o ExpandReplacement(repl, pat, before, after) \o after

-----------------------------------------------------------------------------
(* Map<string, string> *)

MapKeys(m) == {m[i][1] : i \in 1..Len(m)}

MapHas(m, k) == k \in MapKeys(m)

MapGet(m, k) == LET i == CHOOSE i \in 1..Len(m) : m[i][1] = k IN m[i][2]

\* Map.prototype.set: an existing key keeps its place and takes the new value
MapSet(m, k, v) ==
    IF MapHas(m, k)
    THEN [i \in 1..Len(m) |-> IF m[i][1] = k THEN <<k, v>> ELSE m[i]]
    ELSE Append(m, <<k, v>>)

-----------------------------------------------------------------------------
(* PatternRecognizer *)

IsBracket(c) == c \in {"[", "]"}

\* the longest run of characters other than [ and ] that starts at position p
RECURSIVE RunLen(_, _)
RunLen(text, p) ==
    IF p > Len(text) \/ IsBracket(text[p]) THEN 0 ELSE 1 + RunLen(text, p + 1)

\* MatchAt as it would be for /[^[\]]+/, the regex without its lookahead
MatchAtWithoutLookahead(text, p) == RunLen(text, p)

\* /[^[\]]+(?=])/ tried at position p: the length matched, 0 for no match.
\* Every character inside the run is not a bracket, so the lookahead can only
\* succeed after the whole run.
MatchAt(text, p) ==
    LET n == RunLen(text, p)
    IN  IF n >= 1 /\ p + n <= Len(text) /\ text[p + n] = "]" THEN n ELSE 0

\* an exec that leaves lastIndex where it was when nothing matches
RegexExecKeepsLastIndex(text, lastIndex) ==
    LET hits == {p \in (lastIndex + 1)..Len(text) : MatchAt(text, p) > 0}
    IN  IF hits = {}
        THEN [found |-> FALSE, index |-> 0, match |-> <<>>,
              lastIndex |-> lastIndex]
        ELSE LET p == CHOOSE p \in hits : \A q \in hits : p <= q
                 n == MatchAt(text, p)
             IN  [found |-> TRUE, index |-> p - 1,
                  match |-> SubSeq(text, p, p + n - 1),
                  lastIndex |-> p - 1 + n]

\* regex.exec(text) of the global regex whose lastIndex is lastIndex (0-based):
\* the match found and the lastIndex it leaves
RegexExec(text, lastIndex) ==
    LET hits == {p \in (lastIndex + 1)..Len(text) : MatchAt(text, p) > 0}
    IN  IF hits = {}
        THEN [found |-> FALSE, index |-> 0, match |-> <<>>, lastIndex |-> 0]
        ELSE LET p == CHOOSE p \in hits : \A q \in hits : p <= q
                 n == MatchAt(text, p)
             IN  [found |-> TRUE, index |-> p - 1,
                  match |-> SubSeq(text, p, p + n - 1),
                  lastIndex |-> p - 1 + n]

\* the while loop of extractPatterns, entered with the regex at lastIndex
RECURSIVE ExtractLoop(_, _, _)
ExtractLoop(text, lastIndex, templateReferences) ==
    LET r == RegexExec(text, lastIndex)
    IN  IF ~r.found
        THEN [refs |-> templateReferences, lastIndex |-> r.lastIndex]
        ELSE ExtractLoop(text,
                         IF r.index = r.lastIndex THEN r.lastIndex + 1 ELSE r.lastIndex,
                         Append(templateReferences, r.match))

extractPatterns(text) == ExtractLoop(text, 0, <<>>).refs

constructTemplateReference(text) == <<"[">> \o text \o <<"]">>

RECURSIVE ReplaceEveryPattern(_, _)
ReplaceEveryPattern(originalText, templateResolutions_) ==
    IF templateResolutions_ = <<>> THEN originalText
    ELSE ReplaceEveryPattern(
            ReplaceEveryOccurrence(originalText,
                constructTemplateReference(Head(templateResolutions_)[1]),
                Head(templateResolutions_)[2]),
            Tail(templateResolutions_))

\* templateResolutions.forEach in insertion order, one replace per entry
RECURSIVE replacePatterns(_, _)
replacePatterns(originalText, templateResolutions_) ==
    IF templateResolutions_ = <<>> THEN originalText
    ELSE replacePatterns(
            replace(originalText,
                    constructTemplateReference(Head(templateResolutions_)[1]),
                    Head(templateResolutions_)[2]),
            Tail(templateResolutions_))

-----------------------------------------------------------------------------
(* JavaScript values: PrimitiveType and what a JSON body can carry *)

JSString(s) == [t |-> "string", s |-> s, n |-> 0, b |-> FALSE]
\* the number n / 10
JSNumber(n) == [t |-> "number", s |-> <<>>, n |-> n, b |-> FALSE]
JSBoolean(b) == [t |-> "boolean", s |-> <<>>, n |-> 0, b |-> b]
\* the Date n milliseconds after the epoch
JSDate(n) == [t |-> "date", s |-> <<>>, n |-> n, b |-> FALSE]
JSNull == [t |-> "null", s |-> <<>>, n |-> 0, b |-> FALSE]
JSUndefined == [t |-> "undefined", s |-> <<>>, n |-> 0, b |-> FALSE]

isString(v) == v.t = "string"
isNumber(v) == v.t = "number"
isBoolean(v) == v.t = "boolean"
isDate(v) == v.t = "date"
isInteger(v) == v.t = "number" /\ v.n % 10 = 0
isNil(v) == v.t \in {"null", "undefined"}

Digit(d) == <<"0", "1", "2", "3", "4", "5", "6", "7", "8", "9">>[d + 1]

\* the decimal digits of a natural number
RECURSIVE NatToString(_)
NatToString(k) ==
    IF k < 10 THEN <<Digit(k)>> ELSE NatToString(k \div 10) \o <<Digit(k % 10)>>

\* Number.prototype.toString of the number n / 10
NumberToString(n) ==
    LET m == IF n < 0 THEN -n ELSE n
        digits == NatToString(m \div 10)
                  \o (IF m % 10 = 0 THEN <<>> ELSE <<".", Digit(m % 10)>>)
    IN  IF n < 0 THEN <<"-">> \o digits ELSE digits

\* Date.prototype.toISOString of a Date less than a second after the epoch
toISOString(ms) ==
    <<"1", "9", "7", "0", "-", "0", "1", "-", "0", "1", "T",
      "0", "0", ":", "0", "0", ":", "0", "0", ".">>
    \o <<Digit(ms \div 100), Digit((ms \div 10) % 10), Digit(ms % 10)>>
    \o <<"Z">>

\* value.toString() of a string, number or boolean
toString(v) ==
    CASE v.t = "string"  -> v.s
      [] v.t = "number"  -> NumberToString(v.n)
      [] v.t = "boolean" -> IF v.b THEN <<"t", "r", "u", "e">>
                                   ELSE <<"f", "a", "l", "s", "e">>
      [] v.t = "date"    -> toISOString(v.n)

-----------------------------------------------------------------------------
(* ILGValue and Utilities *)

\* an optional property: absent, or present with a value
None == <<>>
Some(x) == <<x>>
IsSome(o) == o # <<>>
The(o) == o[1]

\* an ILGValue with its valueType and the one array property that is set
ILGValue(valueType, field, array) ==
    [[valueType |-> valueType,
      stringValues |-> None, intValues |-> None, floatValues |-> None,
      booleanValues |-> None, dateTimeValues |-> None]
        EXCEPT ![field] = Some(array)]

Slot(key, value) == [key |-> key, value |-> value]

Returned(v) == [ok |-> TRUE, val |-> v, err |-> ""]

Threw(e) == [ok |-> FALSE, val |-> <<>>, err |-> e]

\* array[0] of an optional array property: reading [0] of undefined throws
FirstOf(o) ==
    IF ~IsSome(o) THEN Threw("TypeError")
    ELSE IF The(o) = <<>> THEN Returned(JSUndefined)
    ELSE Returned(The(o)[1])

\* array[0].toString() of an optional array property
FirstToString(o) ==
    LET first == FirstOf(o)
    IN  IF ~first.ok THEN first
        ELSE IF isNil(first.val) THEN Threw("TypeError")
        ELSE Returned(JSString(toString(first.val)))

convertLGValueToString(value) ==
    CASE value.valueType = 0 -> FirstOf(value.stringValues)
      [] value.valueType = 1 -> FirstToString(value.intValues)
      [] value.valueType = 2 -> FirstToString(value.floatValues)
      [] value.valueType = 3 -> FirstToString(value.booleanValues)
      [] value.valueType = 4 -> FirstToString(value.dateTimeValues)
      [] OTHER -> Threw("Internal Error")

convertSlotToLGValue(slot) ==
    LET value == slot.value
    IN  IF isString(value)
        THEN Returned(ILGValue(0, "stringValues", <<value>>))
        ELSE IF isNumber(value)
        THEN IF isInteger(value)
             THEN Returned(ILGValue(1, "intValues", <<value>>))
             ELSE Returned(ILGValue(2, "intValues", <<value>>))
        ELSE IF isBoolean(value)
        THEN Returned(ILGValue(3, "booleanValues", <<value>>))
        ELSE IF isDate(value)
        THEN Returned(ILGValue(3, "dateTimeValues", <<JSString(toISOString(value.n))>>))
        ELSE Threw("")

-----------------------------------------------------------------------------
(* Results of a call *)

NoCall == [op |-> "none"]

NoRet == [ok |-> FALSE, val |-> <<>>, err |-> "not called"]

\* the resolver is not involved in a direct call of a utility
ResolverUnused ==
    /\ impl = "none"
    /\ pc = "unused"
    /\ activity = <<>>
    /\ activity0 = <<>>
    /\ entities = <<>>
    /\ slots = <<>>
    /\ entitiesSlots = <<>>
    /\ requests = <<>>
    /\ promises = <<>>
    /\ completed = <<>>
    /\ responses = <<>>
    /\ templateResolutions = <<>>
    /\ outcome = "none"

-----------------------------------------------------------------------------
(* Direct calls of PatternRecognizer, as the unit tests make them *)

RefA == <<"a">>
RefB == <<"b">>
BrA == constructTemplateReference(RefA)
BrB == constructTemplateReference(RefB)
ValX == <<"X">>
ValY == <<"Y">>

PatternSegs == {BrA, BrB, <<"x">>, <<"a", "]">>}

PatternTexts == ConcatsUpTo(PatternSegs, MaxSegs)

PatternVals == {ValX, ValY, BrB, <<"$", "&">>}

\* the resolution tables over the references a and b, in both insertion orders
PatternTables ==
    {<<>>}
    \cup {<<(<<k, v>>)>> : k \in {RefA, RefB}, v \in PatternVals}
    \cup {<<(<<ks[1], v1>>), (<<ks[2], v2>>)>> :
              ks \in {<<RefA, RefB>>, <<RefB, RefA>>},
              v1 \in PatternVals, v2 \in PatternVals}

InitPattern ==
    /\ ResolverUnused
    /\ call = NoCall
    /\ ret = NoRet
    /\ regexLastIndex = 0

CallExtractPatterns ==
    \E text \in PatternTexts :
        LET r == ExtractLoop(text, regexLastIndex, <<>>)
        IN  /\ call' = [op |-> "extractPatterns", text |-> text]
            /\ ret' = Returned(r.refs)
            /\ regexLastIndex' = r.lastIndex
            /\ UNCHANGED resolverVars

CallReplacePatterns ==
    \E text \in PatternTexts, table \in PatternTables :
        /\ call' = [op |-> "replacePatterns", text |-> text, table |-> table]
        /\ ret' = Returned(replacePatterns(text, table))
        /\ UNCHANGED <<resolverVars, regexLastIndex>>

NextPattern == CallExtractPatterns \/ CallReplacePatterns

SpecPattern == InitPattern /\ [][NextPattern]_vars

-----------------------------------------------------------------------------
(* Claims about PatternRecognizer *)

\* how often pat occurs in text, counting from the left without overlap
RECURSIVE CountOccurrences(_, _)
CountOccurrences(text, pat) ==
    LET p == IndexOf(text, pat)
    IN  IF p = 0 THEN 0
        ELSE 1 + CountOccurrences(SubSeq(text, p + Len(pat), Len(text)), pat)

TableAXBY == <<(<<RefA, ValX>>), (<<RefB, ValY>>)>>

\* C3: when [a] is bracketed more than once in the text, replacePatterns with
\* the table {a -> X, b -> Y} rewrites every [a] to X and every [b] to Y, so
\* that no [a] remains in the result.
C3_ReplacesEveryOccurrence ==
    (/\ call.op = "replacePatterns"
     /\ call.table = TableAXBY
     /\ CountOccurrences(call.text, BrA) >= 2)
    => (/\ ret.ok
        /\ ret.val = ReplaceEveryPattern(call.text, TableAXBY)
        /\ ~Occurs(ret.val, BrA))

-----------------------------------------------------------------------------
(* Direct calls of Utilities *)

\* the values a slot is given: the five supported kinds, and two others
SlotValues ==
    {JSString(<<>>), JSString(<<"a">>), JSString(<<"4", "2">>)}
    \cup {JSNumber(n) : n \in (-MaxTenths)..MaxTenths}
    \cup {JSBoolean(b) : b \in BOOLEAN}
    \cup {JSDate(0), JSDate(MaxTenths)}
    \cup {JSNull, JSUndefined}

Supported(v) == v.t \in {"string", "number", "boolean", "date"}

OptionalArray(element) == {None, Some(<<>>), Some(<<element>>)}

\* the wire values a response can carry: any tag, any arrays
WireValues ==
    {[valueType |-> k, stringValues |-> sv, intValues |-> iv,
      floatValues |-> fv, booleanValues |-> bv, dateTimeValues |-> dv] :
        k \in -1..5,
        sv \in OptionalArray(JSString(<<"a">>)),
        iv \in OptionalArray(JSNumber(10)),
        fv \in OptionalArray(JSNumber(5)),
        bv \in OptionalArray(JSBoolean(TRUE)),
        dv \in OptionalArray(JSString(toISOString(0)))}

InitCodec ==
    /\ ResolverUnused
    /\ call = NoCall
    /\ ret = NoRet
    /\ regexLastIndex = 0

CallConvertSlotToLGValue ==
    \E v \in SlotValues :
        /\ call' = [op |-> "convertSlotToLGValue", value |-> v]
        /\ ret' = convertSlotToLGValue(Slot(<<"n">>, v))
        /\ UNCHANGED <<resolverVars, regexLastIndex>>

CallConvertLGValueToString ==
    \E w \in WireValues :
        /\ call' = [op |-> "convertLGValueToString", value |-> w]
        /\ ret' = convertLGValueToString(w)
        /\ UNCHANGED <<resolverVars, regexLastIndex>>

\* convertLGValueToString(convertSlotToLGValue(slot)): a throw of the inner
\* call is the throw of the whole expression
CallRoundTrip ==
    \E v \in SlotValues :
        LET lgValue == convertSlotToLGValue(Slot(<<"n">>, v))
        IN  /\ call' = [op |-> "roundTrip", value |-> v]
            /\ ret' = IF lgValue.ok THEN convertLGValueToString(lgValue.val)
                                    ELSE lgValue
            /\ UNCHANGED <<resolverVars, regexLastIndex>>

NextCodec ==
    CallConvertSlotToLGValue \/ CallConvertLGValueToString \/ CallRoundTrip

SpecCodec == InitCodec /\ [][NextCodec]_vars

-----------------------------------------------------------------------------
(* Claims about Utilities *)

\* the string form of a supported value: the string itself, the decimal form
\* of a number, true or false, the ISO 8601 form of a Date
StringForm(v) == toString(v)

\* C5: for every supported value v, decoding the encoding of v does not throw
\* and returns the string form of v.
C5_RoundTrip ==
    (call.op = "roundTrip" /\ Supported(call.value))
    => (ret.ok /\ ret.val = JSString(StringForm(call.value)))

\* the kind of the runtime type of a supported value
KindOf(v) ==
    CASE isString(v) -> 0
      [] isInteger(v) -> 1
      [] isNumber(v) -> 2
      [] isBoolean(v) -> 3
      [] isDate(v) -> 4

ArrayOfKind(k) ==
    <<"stringValues", "intValues", "floatValues", "booleanValues",
      "dateTimeValues">>[k + 1]

\* C6: convertSlotToLGValue tags a supported value with the kind of its
\* runtime type and stores it as a singleton in the array of that kind, the
\* four other arrays being absent.
C6_EncodeTagsKind ==
    (call.op = "convertSlotToLGValue" /\ Supported(call.value))
    => (/\ ret.ok
        /\ ret.val.valueType = KindOf(call.value)
        /\ \A k \in 0..4 :
              IF k = KindOf(call.value)
              THEN /\ IsSome(ret.val[ArrayOfKind(k)])
                   /\ Len(The(ret.val[ArrayOfKind(k)])) = 1
              ELSE ret.val[ArrayOfKind(k)] = None)

\* a wire value that is malformed: its tag is outside 0..4, or the array of
\* the tagged kind is absent or empty
Malformed(w) ==
    \/ w.valueType \notin 0..4
    \/ ~IsSome(w[ArrayOfKind(w.valueType)])
    \/ The(w[ArrayOfKind(w.valueType)]) = <<>>

\* C7: convertLGValueToString fails for every malformed wire value; it never
\* returns for one.
C7_DecodeRejectsMalformed ==
    (call.op = "convertLGValueToString" /\ Malformed(call.value)) => ~ret.ok

-----------------------------------------------------------------------------
(* Activity: the fields of the message the pipeline reads and writes *)

\* a CardAction; title stands for the fields the pipeline does not touch
CardAction(title, text, displayText) ==
    [title |-> title, text |-> text, displayText |-> displayText]

\* an Activity; suggestedActions is absent or holds its actions array
Activity(text, speak, suggestedActions) ==
    [locale |-> Some(<<"e", "n">>), text |-> text, speak |-> speak,
     suggestedActions |-> suggestedActions]

\* an optional string that is neither undefined nor ''
Truthy(o) == IsSome(o) /\ The(o) # <<>>

\* o || ''
OrEmpty(o) == IF Truthy(o) THEN The(o) ELSE <<>>

-----------------------------------------------------------------------------
(* Activity inspectors *)

textInspector(a) == extractPatterns(OrEmpty(a.text))

speakInspector(a) == extractPatterns(OrEmpty(a.speak))

\* ReduceActions as it would be if each action gave its displayText before
\* its text
RECURSIVE ReduceActionsDisplayTextFirst(_, _)
ReduceActionsDisplayTextFirst(actions, acc) ==
    IF actions = <<>> THEN acc
    ELSE LET action == Head(actions)
             acc1 == IF Truthy(action.displayText)
                     THEN acc \o extractPatterns(The(action.displayText))
                     ELSE acc
             acc2 == IF Truthy(action.text)
                     THEN acc1 \o extractPatterns(The(action.text))
                     ELSE acc1
         IN  ReduceActionsDisplayTextFirst(Tail(actions), acc2)

\* the reducer: acc = [...acc, ...acc.concat(extractPatterns(field))]
RECURSIVE ReduceActions(_, _)
ReduceActions(actions, acc) ==
    IF actions = <<>> THEN acc
    ELSE LET action == Head(actions)
             acc1 == IF Truthy(action.text)
                     THEN acc \o (acc \o extractPatterns(The(action.text)))
                     ELSE acc
             acc2 == IF Truthy(action.displayText)
                     THEN acc1 \o (acc1 \o extractPatterns(The(action.displayText)))
                     ELSE acc1
         IN  ReduceActions(Tail(actions), acc2)

suggestedActionsInspector(a) ==
    IF IsSome(a.suggestedActions)
    THEN ReduceActions(The(a.suggestedActions), <<>>)
    ELSE <<>>

\* SetOf as it would be if the array were iterated as it is, repeats included
ArrayWithRepeats(array, seen) == seen \o array

\* new Set(array) iterated by forEach: the distinct elements, first seen first
SetOf(array, seen) ==
    LET all == seen \o array
        first == {i \in 1..Len(all) : \A j \in 1..(i - 1) : all[j] # all[i]}
    IN  [k \in 1..Cardinality(first) |->
            all[CHOOSE i \in first : Cardinality({j \in first : j < i}) = k - 1]]

\* the state names both revisions of ActivityUtilities find in an activity
StateNames(a) ==
    SetOf(textInspector(a) \o speakInspector(a) \o suggestedActionsInspector(a),
          <<>>)

STATE_NAME_KEY == <<"G", "e", "t", "S", "t", "a", "t", "e", "N", "a", "m", "e">>

\* LGResolver: one Slot(stateName, entities) per state name
extractSlots(a, entities_) ==
    LET names == StateNames(a)
    IN  [i \in 1..Len(names) |-> [stateName |-> names[i], entities |-> entities_]]

\* LanguageGenerationResolver: one Slot(STATE_NAME_KEY, stateName) per state name
extractTemplateReferencesSlots(a) ==
    LET names == StateNames(a)
    IN  [i \in 1..Len(names) |-> Slot(STATE_NAME_KEY, JSString(names[i]))]

-----------------------------------------------------------------------------
(* Activity injectors *)

\* textInjector as it would be without its test of the text
textInjectorUnguarded(a, table) ==
    [a EXCEPT !.text = Some(replacePatterns(OrEmpty(a.text), table))]

textInjector(a, table) ==
    IF Truthy(a.text)
    THEN [a EXCEPT !.text = Some(replacePatterns(The(a.text), table))]
    ELSE a

speakInjector(a, table) ==
    IF Truthy(a.speak)
    THEN [a EXCEPT !.speak = Some(replacePatterns(The(a.speak), table))]
    ELSE a

actionInjector(action, table) ==
    LET a1 == IF Truthy(action.text)
              THEN [action EXCEPT !.text = Some(replacePatterns(The(action.text), table))]
              ELSE action
    IN  IF Truthy(a1.displayText)
        THEN [a1 EXCEPT !.displayText =
                            Some(replacePatterns(The(a1.displayText), table))]
        ELSE a1

suggestedActionsInjector(a, table) ==
    IF IsSome(a.suggestedActions)
    THEN [a EXCEPT !.suggestedActions =
            Some([i \in 1..Len(The(a.suggestedActions)) |->
                     actionInjector(The(a.suggestedActions)[i], table)])]
    ELSE a

\* the three injectors run in the order text, speak, suggested actions
injectResponses(a, table) ==
    suggestedActionsInjector(speakInjector(textInjector(a, table), table), table)

-----------------------------------------------------------------------------
(* Requests, fetch, aggregation *)

Hello == <<"h", "e", "l", "l", "o">>

\* LGRequest (part_001): _fields gets the state name under STATE_NAME_KEY and
\* then every entity under its own key, as val.toString(); toString of null
\* or undefined throws
RECURSIVE SetEntityFields(_, _)
SetEntityFields(fields, entities_) ==
    IF entities_ = <<>> THEN Returned(fields)
    ELSE LET key == Head(entities_)[1]
             val == Head(entities_)[2]
         IN  IF isNil(val) THEN Threw("TypeError")
             ELSE SetEntityFields(MapSet(fields, key, toString(val)),
                                  Tail(entities_))

LGRequest(slot) ==
    SetEntityFields(MapSet(<<>>, STATE_NAME_KEY, slot.stateName), slot.entities)

\* LGAPI.fetch of part_001: a stub that answers at once
LGAPI_fetch(request) ==
    [templateReference |-> MapGet(request, STATE_NAME_KEY),
     stateResolution |-> Hello]

\* LGRequestBuilder.build: slots.reduce with acc[slot.key] = lgValue
RECURSIVE BuildSlotsJSON(_, _)
BuildSlotsJSON(slots_, acc) ==
    IF slots_ = <<>> THEN Returned(acc)
    ELSE LET lgValue == convertSlotToLGValue(Head(slots_))
         IN  IF ~lgValue.ok THEN lgValue
             ELSE BuildSlotsJSON(Tail(slots_),
                                 MapSet(acc, Head(slots_).key, lgValue.val))

LGRequestBuilder_build(locale, scenario, slots_) ==
    LET slotsJSON == BuildSlotsJSON(slots_, <<>>)
    IN  IF ~slotsJSON.ok THEN slotsJSON
        ELSE Returned([locale |-> locale, scenario |-> scenario,
                       slots |-> slotsJSON.val])

\* the requests of a call, or the throw of the first constructor that throws
RECURSIVE MapRequests(_, _)
MapRequests(built, acc) ==
    IF built = <<>> THEN Returned(acc)
    ELSE IF ~Head(built).ok THEN Head(built)
    ELSE MapRequests(Tail(built), Append(acc, Head(built).val))

\* the replacement String.prototype.replace makes of a table value
ReplacementOf(v) ==
    CASE v.t = "undefined" -> <<"u", "n", "d", "e", "f", "i", "n", "e", "d">>
      [] v.t = "null" -> <<"n", "u", "l", "l">>
      [] OTHER -> toString(v)

\* LGResolver: responses.forEach(lgRes => templateResolutions.set(...))
RECURSIVE AggregateLGResolver(_, _)
AggregateLGResolver(responses_, table) ==
    IF responses_ = <<>> THEN Returned(table)
    ELSE AggregateLGResolver(Tail(responses_),
            MapSet(table, Head(responses_).templateReference,
                   Head(responses_).stateResolution))

\* LanguageGenerationResolver: the key is the first key of lgRes.outputs
\* (undefined when it has none), the value what convertLGValueToString makes
\* of the output under that key; reading valueType of undefined throws
RECURSIVE AggregateLanguageGeneration(_, _)
AggregateLanguageGeneration(responses_, table) ==
    IF responses_ = <<>> THEN Returned(table)
    ELSE LET outputs == Head(responses_).outputs
         IN  IF outputs = <<>> THEN Threw("TypeError")
             ELSE LET templateReference == outputs[1][1]
                      text == convertLGValueToString(outputs[1][2])
                  IN  IF ~text.ok THEN text
                      ELSE AggregateLanguageGeneration(Tail(responses_),
                              MapSet(table, templateReference,
                                     ReplacementOf(text.val)))

-----------------------------------------------------------------------------
(* The arguments resolve is called with *)

RefC == <<"c">>
BrC == constructTemplateReference(RefC)

FieldSegs == {BrA, BrB, <<"x">>}

TextOptions == {None} \cup {Some(t) : t \in ConcatsUpTo(FieldSegs, MaxFieldSegs)}

SpeakOptions == {None} \cup {Some(t) : t \in ConcatsUpTo(FieldSegs, 1)}

ActionShapes ==
    {CardAction(<<"t">>, Some(BrA), Some(BrC)),
     CardAction(<<"t">>, None, Some(BrB)),
     CardAction(<<"t">>, Some(BrC), None)}

SuggestedActionsOptions ==
    {None} \cup {Some(l) : l \in ConcatsUpTo({<<s>> : s \in ActionShapes},
                                            MaxActions)}

\* null, or an activity
ActivityArgs ==
    {None} \cup {Some(Activity(t, sp, sa)) :
                    t \in TextOptions, sp \in SpeakOptions,
                    sa \in SuggestedActionsOptions}

KeyName == <<"n", "a", "m", "e">>

\* null, or a Map<string, PrimitiveType>; the last one holds a value that is
\* no PrimitiveType
EntitiesArgs ==
    {None,
     Some(<<>>),
     Some(<<(<<KeyName, JSString(<<"x">>)>>)>>),
     Some(<<(<<KeyName, JSNumber(10)>>), (<<STATE_NAME_KEY, JSString(RefA)>>)>>),
     Some(<<(<<STATE_NAME_KEY, JSString(<<"z">>)>>)>>),
     Some(<<(<<KeyName, JSNull>>)>>)}

-----------------------------------------------------------------------------
(* resolve, step by step *)

Pending == [state |-> "pending", value |-> None, reason |-> ""]
Fulfilled(v) == [state |-> "fulfilled", value |-> Some(v), reason |-> ""]
RejectedWith(e) == [state |-> "rejected", value |-> None, reason |-> e]

Init ==
    /\ impl \in {"LGResolver", "LanguageGenerationResolver"}
    /\ pc = "idle"
    /\ activity = None
    /\ activity0 = None
    /\ entities = None
    /\ slots = <<>>
    /\ entitiesSlots = <<>>
    /\ requests = <<>>
    /\ promises = <<>>
    /\ completed = <<>>
    /\ responses = <<>>
    /\ templateResolutions = <<>>
    /\ outcome = "none"
    /\ call = NoCall
    /\ ret = NoRet
    /\ regexLastIndex = 0

utilVars == <<call, ret, regexLastIndex>>

\* the promise of resolve is rejected with the error e
Reject(e) ==
    /\ pc' = "rejected"
    /\ outcome' = e

\* resolver.resolve(activity, entities) is called
Call ==
    /\ pc = "idle"
    /\ \E a \in ActivityArgs, e \in EntitiesArgs :
        /\ activity' = a
        /\ activity0' = a
        /\ entities' = e
    /\ pc' = "called"
    /\ outcome' = "pending"
    /\ UNCHANGED <<impl, slots, entitiesSlots, requests, promises, completed,
                   responses, templateResolutions, utilVars>>

\* Validate as it would be if the entities were tested before the activity
ValidateEntitiesFirst ==
    /\ pc = "called"
    /\ IF entities = None
       THEN Reject("Entities can't be null or undefined")
       ELSE IF activity = None
       THEN Reject("Activity can't be null or undefined")
       ELSE pc' = "validated" /\ UNCHANGED outcome
    /\ UNCHANGED <<impl, activity, activity0, entities, slots, entitiesSlots,
                   requests, promises, completed, responses,
                   templateResolutions, utilVars>>

\* the two isNil checks
Validate ==
    /\ pc = "called"
    /\ IF activity = None
       THEN Reject("Activity can't be null or undefined")
       ELSE IF entities = None
       THEN Reject("Entities can't be null or undefined")
       ELSE pc' = "validated" /\ UNCHANGED outcome
    /\ UNCHANGED <<impl, activity, activity0, entities, slots, entitiesSlots,
                   requests, promises, completed, responses,
                   templateResolutions, utilVars>>

\* const templateResolutions = new Map(); the slots of the references
Inspect ==
    /\ pc = "validated"
    /\ templateResolutions' = <<>>
    /\ slots' = IF impl = "LGResolver"
                THEN extractSlots(The(activity), The(entities))
                ELSE extractTemplateReferencesSlots(The(activity))
    /\ pc' = "inspected"
    /\ UNCHANGED <<impl, activity, activity0, entities, entitiesSlots,
                   requests, promises, completed, responses, outcome, utilVars>>

\* ActivityUtilities.convertEntitiesToSlots of LanguageGenerationResolver
convertEntitiesToSlots(entities_) == Threw("Method not implemented.")

ConvertEntities ==
    /\ pc = "inspected"
    /\ impl = "LanguageGenerationResolver"
    /\ LET r == convertEntitiesToSlots(The(entities))
       IN  IF r.ok
           THEN entitiesSlots' = r.val /\ pc' = "converted" /\ UNCHANGED outcome
           ELSE Reject(r.err) /\ UNCHANGED entitiesSlots
    /\ UNCHANGED <<impl, activity, activity0, entities, slots, requests,
                   promises, completed, responses, templateResolutions,
                   utilVars>>

\* the requests of the call: slots.map(slot => new LGRequest(slot)), or
\* templateReferencesSlots.map(... setSlots([templateReferences,
\* ...entitiesSlots]).build())
BuildRequests ==
    IF impl = "LGResolver"
    THEN MapRequests([i \in 1..Len(slots) |-> LGRequest(slots[i])], <<>>)
    ELSE MapRequests([i \in 1..Len(slots) |->
                         LGRequestBuilder_build(The(activity).locale,
                                                <<"r", "t">>,
                                                <<slots[i]>> \o entitiesSlots)],
                     <<>>)

\* the promise lgApi.fetch returns for a request.  In LGResolver the stub's
\* promise is fulfilled later.  In LanguageGenerationResolver fetch is handed
\* to map as a bare function (line 123), so this is undefined in its body and
\* reading this.URL throws: the promise of the async method is rejected.
FetchPromise(request) ==
    IF impl = "LGResolver" THEN Pending ELSE RejectedWith("TypeError")

\* requests built and handed to lgApi.fetch, all before the await
Dispatch ==
    /\ \/ pc = "inspected" /\ impl = "LGResolver"
       \/ pc = "converted"
    /\ LET built == BuildRequests
       IN  IF built.ok
           THEN /\ requests' = built.val
                /\ promises' = [i \in 1..Len(built.val) |-> FetchPromise(built.val[i])]
                /\ pc' = "awaiting"
                /\ UNCHANGED outcome
           ELSE /\ Reject(built.err)
                /\ UNCHANGED <<requests, promises>>
    /\ UNCHANGED <<impl, activity, activity0, entities, slots, entitiesSlots,
                   completed, responses, templateResolutions, utilVars>>

\* FetchSettle as it would be if each response were injected on arrival
FetchSettleInjects ==
    /\ pc = "awaiting"
    /\ \E i \in 1..Len(promises) :
        /\ promises[i].state = "pending"
        /\ promises' = [promises EXCEPT ![i] = Fulfilled(LGAPI_fetch(requests[i]))]
        /\ completed' = Append(completed, i)
        /\ activity' = Some(injectResponses(The(activity),
                <<(<<LGAPI_fetch(requests[i]).templateReference,
                     LGAPI_fetch(requests[i]).stateResolution>>)>>))
    /\ UNCHANGED <<impl, pc, activity0, entities, slots,
                   entitiesSlots, requests, responses, templateResolutions,
                   outcome, utilVars>>

\* one pending fetch of LGResolver is fulfilled with the stub's response
FetchSettle ==
    /\ pc = "awaiting"
    /\ \E i \in 1..Len(promises) :
        /\ promises[i].state = "pending"
        /\ promises' = [promises EXCEPT ![i] = Fulfilled(LGAPI_fetch(requests[i]))]
        /\ completed' = Append(completed, i)
    /\ UNCHANGED <<impl, pc, activity, activity0, entities, slots,
                   entitiesSlots, requests, responses, templateResolutions,
                   outcome, utilVars>>

AnyRejected == \E i \in 1..Len(promises) : promises[i].state = "rejected"

AllFulfilled == \A i \in 1..Len(promises) : promises[i].state = "fulfilled"

\* Join as it would be if resolve went on with the responses that have
\* arrived so far, in the order of their arrival, without waiting for the rest
JoinWithoutWaiting ==
    /\ pc = "awaiting"
    /\ completed # <<>> \/ promises = <<>>
    /\ responses' = [k \in 1..Len(completed) |-> The(promises[completed[k]].value)]
    /\ pc' = "joined"
    /\ UNCHANGED <<impl, activity, activity0, entities, slots, entitiesSlots,
                   requests, promises, completed, templateResolutions,
                   outcome, utilVars>>

\* Join as it would be with Promise.allSettled: the failed fetches are left
\* out and resolve goes on with the responses of the others
JoinAllSettled ==
    /\ pc = "awaiting"
    /\ \A i \in 1..Len(promises) : promises[i].state # "pending"
    /\ responses' = [k \in 1..Len(completed) |-> The(promises[completed[k]].value)]
    /\ pc' = "joined"
    /\ UNCHANGED <<impl, activity, activity0, entities, slots, entitiesSlots,
                   requests, promises, completed, templateResolutions,
                   outcome, utilVars>>

\* Join as it would be with Promise.race: resolve goes on as soon as one
\* promise has settled, with the responses that have arrived
JoinOnFirstSettled ==
    /\ pc = "awaiting"
    /\ \E i \in 1..Len(promises) : promises[i].state # "pending"
    /\ IF AnyRejected
       THEN /\ Reject("TypeError")
            /\ UNCHANGED responses
       ELSE /\ responses' = [k \in 1..Len(completed) |->
                                The(promises[completed[k]].value)]
            /\ pc' = "joined"
            /\ UNCHANGED outcome
    /\ UNCHANGED <<impl, activity, activity0, entities, slots, entitiesSlots,
                   requests, promises, completed, templateResolutions,
                   utilVars>>

\* await Promise.all(requestPromises): rejected as soon as one promise is,
\* else fulfilled with the values in the order of the promises
Join ==
    /\ pc = "awaiting"
    /\ AnyRejected \/ AllFulfilled
    /\ IF AnyRejected
       THEN /\ Reject((CHOOSE p \in {promises[i] : i \in 1..Len(promises)} :
                          p.state = "rejected").reason)
            /\ UNCHANGED responses
       ELSE /\ responses' = [i \in 1..Len(promises) |-> The(promises[i].value)]
            /\ pc' = "joined"
            /\ UNCHANGED outcome
    /\ UNCHANGED <<impl, activity, activity0, entities, slots, entitiesSlots,
                   requests, promises, completed, templateResolutions,
                   utilVars>>

\* responses.forEach(... templateResolutions.set(...))
Aggregate ==
    /\ pc = "joined"
    /\ LET r == IF impl = "LGResolver"
                THEN AggregateLGResolver(responses, templateResolutions)
                ELSE AggregateLanguageGeneration(responses, templateResolutions)
       IN  IF r.ok
           THEN /\ templateResolutions' = r.val
                /\ pc' = "aggregated"
                /\ UNCHANGED outcome
           ELSE /\ Reject(r.err)
                /\ UNCHANGED templateResolutions
    /\ UNCHANGED <<impl, activity, activity0, entities, slots, entitiesSlots,
                   requests, promises, completed, responses, utilVars>>

\* ActivityUtilities.injectResponses(activity, templateResolutions); the
\* promise of resolve is fulfilled
Inject ==
    /\ pc = "aggregated"
    /\ activity' = Some(injectResponses(The(activity), templateResolutions))
    /\ pc' = "done"
    /\ outcome' = "resolved"
    /\ UNCHANGED <<impl, activity0, entities, slots, entitiesSlots, requests,
                   promises, completed, responses, templateResolutions,
                   utilVars>>

Next ==
    \/ Call
    \/ Validate
    \/ Inspect
    \/ ConvertEntities
    \/ Dispatch
    \/ FetchSettle
    \/ Join
    \/ Aggregate
    \/ Inject

Spec == Init /\ [][Next]_vars

-----------------------------------------------------------------------------
(* The fan-out and join of LanguageGenerationResolver.resolve              *)
(*                                                                         *)
(* convertEntitiesToSlots is a placeholder that throws, so under Spec no   *)
(* call of LanguageGenerationResolver.resolve gets past line 113.  Under   *)
(* SpecFanOut the call at line 113 returns what the design gives for the   *)
(* Slot builder (one Slot per entry of the entities map, in insertion      *)
(* order), and lines 115-137 run behind it.                                *)

\* the Slot builder of the design: one Slot per map entry
buildSlots(entities_) ==
    [i \in 1..Len(entities_) |-> Slot(entities_[i][1], entities_[i][2])]

InitFanOut ==
    /\ Init
    /\ impl = "LanguageGenerationResolver"

ConvertEntitiesReturns ==
    /\ pc = "inspected"
    /\ impl = "LanguageGenerationResolver"
    /\ entitiesSlots' = buildSlots(The(entities))
    /\ pc' = "converted"
    /\ UNCHANGED <<impl, activity, activity0, entities, slots, requests,
                   promises, completed, responses, templateResolutions,
                   outcome, utilVars>>

NextFanOut ==
    \/ Call
    \/ Validate
    \/ Inspect
    \/ ConvertEntitiesReturns
    \/ Dispatch
    \/ Join
    \/ Aggregate
    \/ Inject

SpecFanOut == InitFanOut /\ [][NextFanOut]_vars

-----------------------------------------------------------------------------
(* Claims about resolve *)

Br(r) == constructTemplateReference(r)

\* the references discovered in the message the call was given
Discovered == StateNames(The(activity0))

IsDiscovered(r) == \E i \in 1..Len(Discovered) : Discovered[i] = r

\* the text, speak and suggested-action text and displayText of a message
TextFields(a) ==
    <<a.text, a.speak>>
    \o (IF IsSome(a.suggestedActions)
        THEN [i \in 1..(2 * Len(The(a.suggestedActions))) |->
                 IF i % 2 = 1
                 THEN The(a.suggestedActions)[(i + 1) \div 2].text
                 ELSE The(a.suggestedActions)[i \div 2].displayText]
        ELSE <<>>)

Unmodified == activity = activity0

IsRejected == pc = "rejected" /\ outcome \notin {"none", "pending", "resolved"}

\* C1: once every fetch has succeeded and the responses are aggregated, a
\* discovered reference without an entry in the resolution table makes
\* resolve reject, the message being what it was before the call.
C1_Completeness ==
    (/\ pc \in {"done", "rejected"}
     /\ responses # <<>>
     /\ \E i \in 1..Len(Discovered) :
            ~MapHas(templateResolutions, Discovered[i]))
    => (IsRejected /\ Unmodified)

C4_ReplacedInEveryField ==
    pc = "done"
    => \A i \in 1..Len(Discovered) :
          LET r == Discovered[i]
              before == TextFields(The(activity0))
              after == TextFields(The(activity))
              fields == {k \in 1..Len(before) :
                            Truthy(before[k]) /\ Occurs(The(before[k]), Br(r))}
          IN  (/\ Cardinality(fields) >= 2
               /\ \A k \in fields : CountOccurrences(The(before[k]), Br(r)) = 1)
              => \A k \in fields :
                    /\ ~Occurs(The(after[k]), Br(r))
                    /\ Occurs(The(after[k]), responses[i].stateResolution)

\* C8: in every state of a resolve call before its responses are aggregated
\* the message is what it was at the start of the call.
C8_NoEarlyMutation ==
    pc \in {"called", "validated", "inspected", "converted", "awaiting", "joined"}
    => Unmodified

\* some fetches have completed and others are pending, for a message with a
\* reference in its text
C8_Witness ==
    /\ pc = "awaiting"
    /\ \E i \in 1..Len(promises) : promises[i].state = "fulfilled"
    /\ \E i \in 1..Len(promises) : promises[i].state = "pending"
    /\ Truthy(The(activity).text)
    /\ textInspector(The(activity)) # <<>>

\* the message a call produces when its fetches complete in the order of
\* the requests
InOrderResult ==
    LET inOrder == [i \in 1..Len(requests) |-> LGAPI_fetch(requests[i])]
    IN  Some(injectResponses(The(activity0),
                             AggregateLGResolver(inOrder, <<>>).val))

\* C9: the message a successful resolve produces is the same for every order
\* in which its fetches complete: it is the one produced when they complete
\* in the order of the requests.
C9_OrderIndependent == pc = "done" => activity = InOrderResult

\* a successful resolve that changed the message, whose second request was
\* answered before its first
C9_Witness ==
    /\ pc = "done"
    /\ Len(completed) >= 2
    /\ \E k \in 1..(Len(completed) - 1) : completed[k] > completed[k + 1]
    /\ ~Unmodified

\* C10: after aggregation the table maps every discovered reference to the
\* text returned for the request that was built for it.
C10_KeyedByTargetReference ==
    pc \in {"aggregated", "done"}
    => \A i \in 1..Len(Discovered) :
          /\ MapHas(templateResolutions, Discovered[i])
          /\ MapGet(templateResolutions, Discovered[i])
                = responses[i].stateResolution

\* the reference a slot was made for
SlotReference(slot) ==
    IF impl = "LGResolver" THEN slot.stateName ELSE slot.value.s

\* the references bracketed in the fields of a message, as a set
ReferencesOf(a) ==
    LET fields == TextFields(a)
    IN  UNION {{extractPatterns(OrEmpty(fields[k]))[j] :
                   j \in 1..Len(extractPatterns(OrEmpty(fields[k])))} :
               k \in 1..Len(fields)}

Dispatched == pc \in {"awaiting", "joined", "aggregated", "done"}

\* one request and one promise per slot, one slot per distinct reference
OneFetchPerReference ==
    /\ Len(promises) = Len(requests)
    /\ Len(requests) = Len(slots)
    /\ Len(slots) = Cardinality(ReferencesOf(The(activity0)))
    /\ {SlotReference(slots[i]) : i \in 1..Len(slots)}
          = ReferencesOf(The(activity0))

\* a step of a call that has dispatched its fetches dispatches nothing: the
\* requests stay, no promise is added, and a settled promise is not replaced
NothingDispatchedAgain ==
    (Dispatched \/ promises # <<>>)
    => /\ requests' = requests
       /\ Len(promises') = Len(promises)
       /\ \A i \in 1..Len(promises) :
             promises[i].state # "pending" => promises'[i] = promises[i]

\* C11: a resolve call dispatches one fetch per distinct reference of the
\* message, all of them in the step that precedes the wait, and no step
\* after that dispatches a fetch again.
C11_OneFetchPerReference ==
    /\ [](Dispatched => OneFetchPerReference)
    /\ [](completed # <<>> => Len(promises) = Len(slots))
    /\ [][NothingDispatchedAgain]_vars

\* one fetch has completed while another is pending, for a message that
\* brackets one of its references in text and in speak
C11_Witness ==
    /\ pc = "awaiting"
    /\ completed # <<>>
    /\ \E i \in 1..Len(promises) : promises[i].state = "pending"
    /\ \E r \in ReferencesOf(The(activity0)) :
          /\ Occurs(OrEmpty(The(activity0).text), Br(r))
          /\ Occurs(OrEmpty(The(activity0).speak), Br(r))


AnyPending == \E i \in 1..Len(promises) : promises[i].state = "pending"

-----------------------------------------------------------------------------
(* The tail of resolve, on the responses the await hands it                 *)
(*                                                                         *)
(* What a service answers is not decided by this code.  Under SpecAggregate *)
(* the statements after the await (aggregation, then injection) are applied *)
(* to responses drawn from well-formed ones and from ones whose reference   *)
(* or text is absent.                                                       *)

\* responses a call gets at most
MaxResponses == 2

Undefined == <<"u", "n", "d", "e", "f", "i", "n", "e", "d">>

\* `[${text}]` and String.prototype.replace turn the keys and values of a
\* table into strings when replacePatterns uses them
CoerceTable(table) ==
    [i \in 1..Len(table) |->
        <<ReplacementOf(table[i][1]), ReplacementOf(table[i][2])>>]

\* LGResolver, lines 168-172 of part_001
resolveTailLGResolver(a, responses_) ==
    LET table == AggregateLGResolver(responses_, <<>>).val
    IN  Returned([table |-> CoerceTable(table),
                  activity |-> injectResponses(a, CoerceTable(table))])

\* LanguageGenerationResolver, lines 127-137 of lgResolver.ts
resolveTailLanguageGeneration(a, responses_) ==
    LET table == AggregateLanguageGeneration(responses_, <<>>)
    IN  IF ~table.ok THEN table
        ELSE Returned([table |-> table.val,
                       activity |-> injectResponses(a, table.val)])

\* an LGResponse of LGResolver: either field may be undefined
LGResponses ==
    {[templateReference |-> r, stateResolution |-> s] :
        r \in {JSString(RefA), JSString(RefB), JSUndefined},
        s \in {JSString(ValX), JSUndefined}}

\* an ILGResponse: no output, an output with its text, an output whose
\* stringValues is empty
ILGResponses ==
    {[outputs |-> <<>>]}
    \cup {[outputs |-> <<(<<r, ILGValue(0, "stringValues", v)>>)>>] :
             r \in {RefA, RefB}, v \in {<<JSString(ValX)>>, <<>>}}

\* all sequences of at most n elements of set
RECURSIVE SeqsUpTo(_, _)
SeqsUpTo(set, n) ==
    IF n = 0 THEN {<<>>}
    ELSE LET shorter == SeqsUpTo(set, n - 1)
         IN  shorter \cup {Append(q, x) : q \in shorter, x \in set}

AggregateActivities ==
    {Activity(Some(t), sp, None) :
        t \in {BrA, BrA \o BrB, constructTemplateReference(Undefined)},
        sp \in {None, Some(BrB)}}

InitAggregate ==
    /\ ResolverUnused
    /\ call = NoCall
    /\ ret = NoRet
    /\ regexLastIndex = 0

CallTailLGResolver ==
    \E a \in AggregateActivities, rs \in SeqsUpTo(LGResponses, MaxResponses) :
        /\ call' = [op |-> "LGResolver", activity |-> a, responses |-> rs]
        /\ ret' = resolveTailLGResolver(a, rs)
        /\ UNCHANGED <<resolverVars, regexLastIndex>>

CallTailLanguageGeneration ==
    \E a \in AggregateActivities, rs \in SeqsUpTo(ILGResponses, MaxResponses) :
        /\ call' = [op |-> "LanguageGenerationResolver", activity |-> a,
                    responses |-> rs]
        /\ ret' = resolveTailLanguageGeneration(a, rs)
        /\ UNCHANGED <<resolverVars, regexLastIndex>>

NextAggregate == CallTailLGResolver \/ CallTailLanguageGeneration

SpecAggregate == InitAggregate /\ [][NextAggregate]_vars

\* the target reference and the resolved text of a response, as optional
\* strings
TargetOf(op, response) ==
    IF op = "LGResolver"
    THEN IF isNil(response.templateReference) THEN None
         ELSE Some(response.templateReference.s)
    ELSE IF response.outputs = <<>> THEN None
         ELSE Some(response.outputs[1][1])

TextOf(op, response) ==
    IF op = "LGResolver"
    THEN IF isNil(response.stateResolution) THEN None
         ELSE Some(response.stateResolution.s)
    ELSE IF response.outputs = <<>> THEN None
         ELSE LET v == response.outputs[1][2].stringValues
              IN  IF ~IsSome(v) \/ The(v) = <<>> THEN None
                  ELSE Some(The(v)[1].s)

\* the table of the responses that have both their reference and their text
RECURSIVE TableSkippingAbsent(_, _, _)
TableSkippingAbsent(op, responses_, table) ==
    IF responses_ = <<>> THEN table
    ELSE LET r == Head(responses_)
         IN  TableSkippingAbsent(op, Tail(responses_),
                IF IsSome(TargetOf(op, r)) /\ IsSome(TextOf(op, r))
                THEN MapSet(table, The(TargetOf(op, r)), The(TextOf(op, r)))
                ELSE table)

\* C13: the tail of resolve does not throw on a response whose reference or
\* text is absent; its table is the one of the other responses, and the
\* message it leaves is the injection of that table.
C13_AbsentSkipped ==
    call.op \in {"LGResolver", "LanguageGenerationResolver"}
    => LET expected == TableSkippingAbsent(call.op, call.responses, <<>>)
       IN  /\ ret.ok
           /\ ret.val.table = expected
           /\ ret.val.activity = injectResponses(call.activity, expected)


-----------------------------------------------------------------------------
(* More claims about PatternRecognizer *)

\* C14: when the table resolves a to the text [b] and b to a plain text, and
\* the text brackets a once and b nowhere, replacePatterns returns the text
\* with [a] replaced by [b] and nothing else changed: the inserted [b] is
\* not resolved in turn, whichever of a and b was inserted first.
C14_InsertedVerbatim ==
    (/\ call.op = "replacePatterns"
     /\ MapKeys(call.table) = {RefA, RefB}
     /\ MapGet(call.table, RefA) = BrB
     /\ MapGet(call.table, RefB) \in {ValX, ValY}
     /\ CountOccurrences(call.text, BrA) = 1
     /\ ~Occurs(call.text, BrB))
    => (/\ ret.ok
        /\ ret.val = ReplaceEveryOccurrence(call.text, BrA, BrB)
        /\ Occurs(ret.val, BrB))


-----------------------------------------------------------------------------
(* Direct calls of ActivityUtilities, as the unit tests make them *)

\* suggested actions of the activity of a direct call, at most
MaxCallActions == 2

RefD == <<"d">>
RefE == <<"e">>
RefF == <<"f">>
RefG == <<"g">>
BrD == constructTemplateReference(RefD)
BrE == constructTemplateReference(RefE)
BrF == constructTemplateReference(RefF)
BrG == constructTemplateReference(RefG)

CallTexts ==
    {None, Some(<<>>), Some(BrA), Some(BrA \o BrB), Some(BrB \o BrA),
     Some(BrA \o BrA), Some(<<"x">>)}

CallSpeaks ==
    {None, Some(BrB), Some(BrC \o BrD \o BrE), Some(BrC \o <<"x">> \o BrA)}

CallActions ==
    {CardAction(<<"t">>, Some(BrF), Some(BrG)),
     CardAction(<<"t">>, Some(BrA), Some(BrF)),
     CardAction(<<"t">>, None, Some(BrG)),
     CardAction(<<"t">>, Some(BrF), None)}

CallActivities ==
    {Activity(t, sp, sa) :
        t \in CallTexts, sp \in CallSpeaks,
        sa \in {None} \cup {Some(l) : l \in SeqsUpTo(CallActions, MaxCallActions)}}

CallEntities == {<<>>, <<(<<KeyName, JSString(<<"x">>)>>)>>}

\* the table that resolves every reference a .. g to its capital letter
PlainTable ==
    <<(<<RefA, <<"A">>>>), (<<RefB, <<"B">>>>), (<<RefC, <<"C">>>>),
      (<<RefD, <<"D">>>>), (<<RefE, <<"E">>>>), (<<RefF, <<"F">>>>),
      (<<RefG, <<"G">>>>)>>

Reverse(seq) == [i \in 1..Len(seq) |-> seq[Len(seq) + 1 - i]]

\* the tables of a direct call: empty, partial, complete in both insertion
\* orders, and complete with the resolution of a being the text [b]
CallTables ==
    {<<>>,
     <<(<<RefA, ValX>>)>>,
     <<(<<RefB, ValY>>), (<<RefF, ValX>>)>>,
     PlainTable,
     Reverse(PlainTable),
     MapSet(PlainTable, RefA, BrB)}

InitActivity ==
    /\ ResolverUnused
    /\ call = NoCall
    /\ ret = NoRet
    /\ regexLastIndex = 0

CallExtractSlots ==
    /\ call = NoCall
    /\ \E a \in CallActivities, e \in CallEntities :
        /\ call' = [op |-> "extractSlots", activity |-> a, entities |-> e]
        /\ ret' = Returned(extractSlots(a, e))
    /\ UNCHANGED <<resolverVars, regexLastIndex>>

CallExtractTemplateReferencesSlots ==
    /\ call = NoCall
    /\ \E a \in CallActivities :
        /\ call' = [op |-> "extractTemplateReferencesSlots", activity |-> a]
        /\ ret' = Returned(extractTemplateReferencesSlots(a))
    /\ UNCHANGED <<resolverVars, regexLastIndex>>

CallInjectResponses ==
    /\ call = NoCall
    /\ \E a \in CallActivities, table \in CallTables :
        /\ call' = [op |-> "injectResponses", activity |-> a, table |-> table]
        /\ ret' = Returned(injectResponses(a, table))
    /\ UNCHANGED <<resolverVars, regexLastIndex>>

NextActivity ==
    \/ CallExtractSlots
    \/ CallExtractTemplateReferencesSlots
    \/ CallInjectResponses

SpecActivity == InitActivity /\ [][NextActivity]_vars

-----------------------------------------------------------------------------
(* Claims about ActivityUtilities *)

\* the references of the fields of a message in the order text, speak, then
\* text and displayText of each suggested action, repeats included
RECURSIVE ScanOrder(_)
ScanOrder(fields) ==
    IF fields = <<>> THEN <<>>
    ELSE extractPatterns(OrEmpty(Head(fields))) \o ScanOrder(Tail(fields))

\* a sequence without the elements that occur earlier in it
RECURSIVE Distinct(_)
Distinct(seq) ==
    IF seq = <<>> THEN <<>>
    ELSE LET front == Distinct(SubSeq(seq, 1, Len(seq) - 1))
             last == seq[Len(seq)]
         IN  IF \E i \in 1..Len(front) : front[i] = last
             THEN front ELSE Append(front, last)

\* the reference a returned slot holds
ReferenceOfSlot(slot) ==
    IF call.op = "extractSlots" THEN slot.stateName ELSE slot.value.s

\* C15: the slots of a message are one per distinct reference, in the order
\* in which the references are first seen when text, speak and then each
\* suggested action's text and displayText are scanned.
C15_DiscoveryOrder ==
    call.op \in {"extractSlots", "extractTemplateReferencesSlots"}
    => LET expected == Distinct(ScanOrder(TextFields(call.activity)))
       IN  /\ ret.ok
           /\ Len(ret.val) = Len(expected)
           /\ Len(ret.val) = Cardinality(ReferencesOf(call.activity))
           /\ \A i \in 1..Len(expected) :
                 ReferenceOfSlot(ret.val[i]) = expected[i]

\* seven slots for a message with seven distinct references, some of them
\* bracketed again in a second suggested action
C15_Witness ==
    /\ call.op = "extractSlots"
    /\ ret.ok
    /\ Len(ret.val) = 7
    /\ Len(ScanOrder(TextFields(call.activity))) > 7
    /\ Len(The(call.activity.suggestedActions)) = 2


\* text with every bracketed key of the table replaced by the key's value,
\* in one pass from left to right over the original text
RECURSIVE Substitute(_, _)
Substitute(text, table) ==
    IF text = <<>> THEN <<>>
    ELSE LET hits == {i \in 1..Len(table) :
                         /\ Len(Br(table[i][1])) <= Len(text)
                         /\ SubSeq(text, 1, Len(Br(table[i][1]))) = Br(table[i][1])}
         IN  IF hits = {}
             THEN <<Head(text)>> \o Substitute(Tail(text), table)
             ELSE LET i == CHOOSE i \in hits : TRUE
                  IN  table[i][2]
                      \o Substitute(SubSeq(text, Len(Br(table[i][1])) + 1, Len(text)),
                                    table)

\* the table has an entry for every reference of the message, and no field
\* of the message brackets a reference twice
CompleteOncePerField(a, table) ==
    /\ \A r \in ReferencesOf(a) : MapHas(table, r)
    /\ \A k \in 1..Len(TextFields(a)) : \A r \in ReferencesOf(a) :
          CountOccurrences(OrEmpty(TextFields(a)[k]), Br(r)) <= 1

\* C16: given such a table, injectResponses leaves in text, speak and each
\* suggested action's text and displayText the original string of that field
\* with each [r] replaced by table[r].
C16_InjectsEveryField ==
    (call.op = "injectResponses" /\ CompleteOncePerField(call.activity, call.table))
    => /\ ret.ok
       /\ \A k \in 1..Len(TextFields(call.activity)) :
             LET before == TextFields(call.activity)[k]
                 after == TextFields(ret.val)[k]
             IN  IF Truthy(before)
                 THEN after = Some(Substitute(The(before), call.table))
                 ELSE after = before


\* the parts of a message that injection has no business with
Frame(a) ==
    [locale |-> a.locale,
     texts |-> [k \in 1..Len(TextFields(a)) |-> IsSome(TextFields(a)[k])],
     titles |-> IF IsSome(a.suggestedActions)
                THEN Some([i \in 1..Len(The(a.suggestedActions)) |->
                              The(a.suggestedActions)[i].title])
                ELSE None]

\* C17: injectResponses leaves locale, the titles and number of the actions
\* and the presence of every field as they were; in each field a bracketed
\* reference that is no key of the table is still there as often as before;
\* with an empty table the message is the one it was given.
C17_InjectionFrame ==
    call.op = "injectResponses"
    => /\ ret.ok
       /\ Frame(ret.val) = Frame(call.activity)
       /\ \A k \in 1..Len(TextFields(call.activity)) :
             \A r \in ReferencesOf(call.activity) \ MapKeys(call.table) :
                CountOccurrences(OrEmpty(TextFields(ret.val)[k]), Br(r))
                   >= CountOccurrences(OrEmpty(TextFields(call.activity)[k]), Br(r))
       /\ \A k \in 1..Len(TextFields(call.activity)) :
             (\A r \in ReferencesOf(call.activity) : ~MapHas(call.table, r))
             => TextFields(ret.val)[k] = TextFields(call.activity)[k]
       /\ call.table = <<>> => ret.val = call.activity

\* injection with a table that resolves some references of the message and
\* not others, in a message with suggested actions
C17_Witness ==
    /\ call.op = "injectResponses"
    /\ ret.ok
    /\ ret.val # call.activity
    /\ IsSome(call.activity.suggestedActions)
    /\ \E r \in ReferencesOf(call.activity) : MapHas(call.table, r)
    /\ \E r \in ReferencesOf(call.activity) :
          /\ ~MapHas(call.table, r)
          /\ \E k \in 1..Len(TextFields(ret.val)) :
                Occurs(OrEmpty(TextFields(ret.val)[k]), Br(r))


-----------------------------------------------------------------------------
(* Claims about extractPatterns *)

\* the bracketed references of a text from position p on, left to right: the
\* non-empty bracket-free runs that have [ right before them and ] right
\* after them
RECURSIVE BracketedFrom(_, _)
BracketedFrom(text, p) ==
    IF p > Len(text) THEN <<>>
    ELSE IF text[p] = "[" /\ MatchAt(text, p + 1) > 0
         THEN <<SubSeq(text, p + 1, p + MatchAt(text, p + 1))>>
              \o BracketedFrom(text, p + MatchAt(text, p + 1) + 2)
         ELSE BracketedFrom(text, p + 1)

Bracketed(text) == BracketedFrom(text, 1)

\* C18: extractPatterns returns the bracketed references of the text, one
\* element for each, in their order in the text, repeats included.
C18_OnePerBracketedReference ==
    call.op = "extractPatterns"
    => (ret.ok /\ ret.val = Bracketed(call.text))

\* C19: every string extractPatterns returns is free of brackets and stands
\* in the text between a [ right before it and a ] right after it.
C19_OnlyBracketed ==
    call.op = "extractPatterns"
    => /\ ret.ok
       /\ \A i \in 1..Len(ret.val) :
             /\ \A j \in 1..Len(ret.val[i]) : ~IsBracket(ret.val[i][j])
             /\ Occurs(call.text, Br(ret.val[i]))

HasNoBracket(text) == \A j \in 1..Len(text) : ~IsBracket(text[j])

\* C20: for a text without [ and ], extractPatterns returns the empty
\* sequence and replacePatterns returns the text as it is, whatever the table.
C20_NoBrackets ==
    /\ (call.op = "extractPatterns" /\ HasNoBracket(call.text))
          => (ret.ok /\ ret.val = <<>>)
    /\ (call.op = "replacePatterns" /\ HasNoBracket(call.text))
          => (ret.ok /\ ret.val = call.text)

\* replacePatterns called on a non-empty text without brackets, with a table
\* of two entries
C20_Witness ==
    /\ call.op = "replacePatterns"
    /\ HasNoBracket(call.text)
    /\ Len(call.text) >= 2
    /\ Len(call.table) = 2
    /\ ret.ok


-----------------------------------------------------------------------------
(* Claims about the arguments of resolve *)

NothingExtractedOrDispatched ==
    /\ slots = <<>>
    /\ requests = <<>>
    /\ promises = <<>>
    /\ completed = <<>>

\* C21: a resolve call whose message is null or undefined never extracts a
\* reference and never dispatches a fetch, and once past the call it is
\* rejected with the error of the activity test.
C21_AbsentMessageRejected ==
    (pc # "idle" /\ activity0 = None)
    => /\ NothingExtractedOrDispatched
       /\ pc \in {"called", "rejected"}
       /\ pc = "rejected"
             => (IsRejected /\ outcome = "Activity can't be null or undefined")

\* a call with no message and with an entities map has been rejected
C21_Witness ==
    /\ activity0 = None
    /\ entities # None
    /\ pc = "rejected"
    /\ IsRejected


\* C22: a resolve call with a message and without entities is not rejected
\* by the validation of its arguments: it goes on to the inspection of the
\* message.
C22_EntitiesOptional ==
    (/\ activity0 # None
     /\ entities = None
     /\ pc \notin {"idle", "called"})
    => /\ outcome # "Entities can't be null or undefined"
       /\ pc # "rejected" \/ slots # <<>> \/ StateNames(The(activity0)) = <<>>

-----------------------------------------------------------------------------
(* The endpoint constructors *)
(*                                                                         *)
(* lgResolver.ts holds LanguageGenerationEndpoint (lines 41-82) and, in    *)
(* the first draft kept at its end, LGEndpoint (lines 738-767); part_001   *)
(* holds the later LGEndpoint (lines 95-134).                              *)

\* lodash isEmpty of an optional string
isEmpty(o) == ~IsSome(o) \/ The(o) = <<>>

\* validateInputs of LanguageGenerationEndpoint and of LGEndpoint in part_001
validateInputs(endpointKey, lgAppId, endpointUri) ==
    IF isEmpty(endpointKey)
    THEN Threw("Endpoint key can't be undefined or empty")
    ELSE IF isEmpty(lgAppId)
    THEN Threw("LG app ID can't be undefined or empty")
    ELSE IF isEmpty(endpointUri)
    THEN Threw("Endpoint URI can't be undefined or empty")
    ELSE Returned(<<>>)

\* validateInputs of LGEndpoint in the first draft: its body is a comment
validateInputsDraft(endpointKey, lgAppId, endpointUri) == Returned(<<>>)

Endpoint(endpointKey, lgAppId, endpointUri) ==
    [endpointKey |-> endpointKey, lgAppId |-> lgAppId,
     endpointUri |-> endpointUri]

\* new LanguageGenerationEndpoint(...), new LGEndpoint(...) of part_001
newEndpoint(endpointKey, lgAppId, endpointUri) ==
    LET v == validateInputs(endpointKey, lgAppId, endpointUri)
    IN  IF v.ok THEN Returned(Endpoint(endpointKey, lgAppId, endpointUri)) ELSE v

\* new LGEndpoint(...) of the first draft
newEndpointDraft(endpointKey, lgAppId, endpointUri) ==
    LET v == validateInputsDraft(endpointKey, lgAppId, endpointUri)
    IN  IF v.ok THEN Returned(Endpoint(endpointKey, lgAppId, endpointUri)) ELSE v

\* undefined, '', and two strings
EndpointStrings == {None, Some(<<>>), Some(<<"q", "w">>), Some(<<"r", "t">>)}

EndpointClasses == {"LanguageGenerationEndpoint", "LGEndpoint", "LGEndpoint (draft)"}

InitEndpoint ==
    /\ ResolverUnused
    /\ call = NoCall
    /\ ret = NoRet
    /\ regexLastIndex = 0

CallNewEndpoint ==
    \E class \in EndpointClasses \ {"LGEndpoint (draft)"},
       k \in EndpointStrings, a \in EndpointStrings, u \in EndpointStrings :
        /\ call' = [op |-> class, endpointKey |-> k, lgAppId |-> a,
                    endpointUri |-> u]
        /\ ret' = newEndpoint(k, a, u)
        /\ UNCHANGED <<resolverVars, regexLastIndex>>

CallNewEndpointDraft ==
    \E k \in EndpointStrings, a \in EndpointStrings, u \in EndpointStrings :
        /\ call' = [op |-> "LGEndpoint (draft)", endpointKey |-> k,
                    lgAppId |-> a, endpointUri |-> u]
        /\ ret' = newEndpointDraft(k, a, u)
        /\ UNCHANGED <<resolverVars, regexLastIndex>>

NextEndpoint == CallNewEndpoint \/ CallNewEndpointDraft

SpecEndpoint == InitEndpoint /\ [][NextEndpoint]_vars

\* C23: the construction of an endpoint whose application id or credential
\* is empty or absent fails: no endpoint comes of it.
C23_EndpointValidated ==
    (/\ call.op \in EndpointClasses
     /\ isEmpty(call.lgAppId) \/ isEmpty(call.endpointKey))
    => ~ret.ok


-----------------------------------------------------------------------------
(* Claims about the requests of a call *)

\* the slots a request carries: the fields of an LGRequest, the slots object
\* of a built request
SlotsOfRequest(request) ==
    IF impl = "LGResolver" THEN request ELSE request.slots

\* what the target-reference slot of the request made for a slot should hold
TargetOfSlot(slot) ==
    IF impl = "LGResolver" THEN slot.stateName
    ELSE convertSlotToLGValue(slot).val

\* C24: in every request of a call the slot named GetStateName holds the
\* reference the request was built for, and the requests of the call agree
\* on every other slot (and on locale and scenario), whatever the entities.
C24_TargetReferenceSlot ==
    (Dispatched /\ requests # <<>>)
    => /\ Len(requests) = Len(slots)
       /\ \A i \in 1..Len(requests) :
             /\ MapHas(SlotsOfRequest(requests[i]), STATE_NAME_KEY)
             /\ MapGet(SlotsOfRequest(requests[i]), STATE_NAME_KEY)
                    = TargetOfSlot(slots[i])
       /\ \A i, j \in 1..Len(requests) :
             /\ MapKeys(SlotsOfRequest(requests[i]))
                    = MapKeys(SlotsOfRequest(requests[j]))
             /\ \A k \in MapKeys(SlotsOfRequest(requests[i])) \ {STATE_NAME_KEY} :
                   MapGet(SlotsOfRequest(requests[i]), k)
                       = MapGet(SlotsOfRequest(requests[j]), k)
             /\ impl # "LGResolver"
                   => /\ requests[i].locale = requests[j].locale
                      /\ requests[i].scenario = requests[j].scenario

\* the same property for calls whose entities have no entry named
\* GetStateName
C24_WithoutClash ==
    (entities # None /\ ~MapHas(The(entities), STATE_NAME_KEY))
    => C24_TargetReferenceSlot

\* C25: LanguageGenerationResolver.resolve of a message without references,
\* with an empty entities map, is not rejected, dispatches nothing, and ends
\* with the message as it was given.
C25_NothingToResolve ==
    (/\ impl = "LanguageGenerationResolver"
     /\ activity0 # None
     /\ ReferencesOf(The(activity0)) = {}
     /\ entities = Some(<<>>))
    => /\ pc # "rejected"
       /\ requests = <<>> /\ promises = <<>>
       /\ pc = "done" => Unmodified


-----------------------------------------------------------------------------
(* Claims about the shared regex *)

\* C26: whenever a call of extractPatterns has returned, the lastIndex of
\* the shared regex is 0, and the call returned what extractPatterns returns
\* for its text when the regex starts at 0, whatever calls came before.
C26_DependsOnTextOnly ==
    /\ regexLastIndex = 0
    /\ call.op = "extractPatterns"
          => ret = Returned(ExtractLoop(call.text, 0, <<>>).refs)

\* a call that moved lastIndex past two matches has returned
C26_Witness ==
    /\ call.op = "extractPatterns"
    /\ ret.ok /\ Len(ret.val) >= 2
    /\ regexLastIndex = 0

=============================================================================
